---- MODULE Spec2Model ----
(***************************************************************************)
(* Model of backendgpt.py: module initialisation (API key check, client    *)
(* construction) and the three retrying operations generate_subtopics,     *)
(* generate_explanation_and_activity and generate_interactive_activity.    *)
(* Each invocation is a sequential loop; the model steps it at the points  *)
(* where the code blocks: the service call and the backoff sleep.          *)
(***************************************************************************)
EXTENDS Integers, Sequences, FiniteSets, TLC

VARIABLES
    apiKey,         \* GEMINI_API_KEY as read by os.getenv
    module,         \* "unloaded" | "loaded" | "failed"
    startupErrors,  \* how many times the ValueError of line 17 was raised
    client,         \* TRUE once genai.Client(...) has been constructed
    inv             \* call site -> frame of the invocation running there

vars == <<apiKey, module, startupErrors, client, inv>>

----------------------------------------------------------------------------
(* Bounds *)
MaxRetries == 4
MaxDelay == 3
ConcMaxRetries == 2

(* Program constants *)
(* variant: three attempts by default *)
DefaultRetries_three == 1 + 2
DefaultRetries == 1
DefaultDelay == 3
MODEL_ID == "gemini-2.5-flash-lite"

(* os.getenv yields None when the variable is not set *)
NoKey == "<None>"
KeyValues == {NoKey, "", "AIza-key"}

Sites == {"site1"}
LockSites == {"plan", "compose", "generate"}
ConcSites == {"site1", "site2"}
AllSites == Sites \cup LockSites \cup ConcSites

Ops == {"generate_subtopics", "generate_explanation_and_activity",
        "generate_interactive_activity"}
RetriesArgs == -1..MaxRetries
DelayArgs == 0..MaxDelay

----------------------------------------------------------------------------
(* Python / JSON values.  Every value has the same record shape so that    *)
(* values of different JSON types can be compared.                         *)
Absent == "<absent>"

JsonValue(jt, sa, dl, qt, ct, ty) ==
    [jt |-> jt, subject_area |-> sa, depth_level |-> dl, question_type |-> qt,
     curiosity_tree |-> ct, type |-> ty]

PyNone == JsonValue("null", Absent, Absent, Absent, <<>>, Absent)
Unset == JsonValue("<unset>", Absent, Absent, Absent, <<>>, Absent)
ParseError == JsonValue("<JSONDecodeError>", Absent, Absent, Absent, <<>>, Absent)

(* Response bodies (response.text).  NoText stands for text = None.        *)
NoText == "<None>"
EmptyText == ""
ProseText == "Sure! Here is the JSON you asked for"
TruncatedText == "{\"subject_area\": \"Sci"
NullText == "null"
ListText == "[]"
NumberText == "7"
EmptyObjectText == "{}"
PlanText == "{\"subject_area\":\"Science\",\"depth_level\":\"Introductory\",\"question_type\":\"Conceptual\",\"curiosity_tree\":[\"Rayleigh scattering\",\"Wavelengths\",\"Atmosphere\"]}"
ShortPlanText == "{\"subject_area\":\"Science\",\"depth_level\":\"Advanced\",\"question_type\":\"Factual\",\"curiosity_tree\":[\"Rayleigh scattering\",\"Wavelengths\"]}"
BadEnumPlanText == "{\"subject_area\":\"Science\",\"depth_level\":\"Expert\",\"question_type\":\"Factual\",\"curiosity_tree\":[\"a\",\"b\",\"c\",\"d\"]}"
DragDropText == "{\"id\":\"a1\",\"type\":\"drag_drop\",\"draggableElements\":[],\"droppableBlanks\":[]}"
MatchText == "{\"id\":\"a2\",\"type\":\"match\",\"pairs\":[]}"
FillText == "{\"id\":\"a3\",\"type\":\"fill_in_blanks\",\"text\":\"___\",\"blanks\":{},\"answers\":{}}"
ToggleText == "{\"id\":\"a4\",\"type\":\"toggle_true_false\",\"statements\":[]}"

UnparseableTexts == {EmptyText, ProseText, TruncatedText}
ParseableTexts == {NullText, ListText, NumberText, EmptyObjectText, PlanText,
                   ShortPlanText, BadEnumPlanText, DragDropText, MatchText,
                   FillText, ToggleText}
Texts == {NoText} \cup UnparseableTexts \cup ParseableTexts

(* json.loads on a str: the parsed value, or ParseError for JSONDecodeError *)
json_loads(t) ==
    CASE t = NullText -> PyNone
      [] t = ListText -> JsonValue("array", Absent, Absent, Absent, <<>>, Absent)
      [] t = NumberText -> JsonValue("number", Absent, Absent, Absent, <<>>, Absent)
      [] t = EmptyObjectText -> JsonValue("object", Absent, Absent, Absent, <<>>, Absent)
      [] t = PlanText -> JsonValue("object", "Science", "Introductory", "Conceptual",
                            <<"Rayleigh scattering", "Wavelengths", "Atmosphere">>, Absent)
      [] t = ShortPlanText -> JsonValue("object", "Science", "Advanced", "Factual",
                            <<"Rayleigh scattering", "Wavelengths">>, Absent)
      [] t = BadEnumPlanText -> JsonValue("object", "Science", "Expert", "Factual",
                            <<"a", "b", "c", "d">>, Absent)
      [] t = DragDropText -> JsonValue("object", Absent, Absent, Absent, <<>>, "drag_drop")
      [] t = MatchText -> JsonValue("object", Absent, Absent, Absent, <<>>, "match")
      [] t = FillText -> JsonValue("object", Absent, Absent, Absent, <<>>, "fill_in_blanks")
      [] t = ToggleText -> JsonValue("object", Absent, Absent, Absent, <<>>, "toggle_true_false")
      [] OTHER -> ParseError

(* Python truthiness of response.text: None and the empty string are falsy *)
Truthy(t) == t # NoText /\ t # EmptyText

(* Exceptions.  Every class here derives from Exception.                   *)
NoError == "<no exception>"
CallErrors == {"APIError", "ConnectionError"}
Errors == CallErrors \cup {"TypeError", "JSONDecodeError"}
IsAPIError(e) == e = "APIError"
IsException(e) == e \in Errors

(* What one call of client.models.generate_content produces *)
Raise(e) == [raises |-> e, text |-> NoText]
Reply(t) == [raises |-> NoError, text |-> t]
Outcomes == {Raise(e) : e \in CallErrors} \cup {Reply(t) : t \in Texts}

----------------------------------------------------------------------------
(* Arguments of the three functions *)
Question == "Why is the sky blue?"
Subtopic == "Rayleigh scattering"
Topic == "Rayleigh scattering"
Explanation == "Short wavelengths scatter more."
TemplateKinds == {"drag_drop", "match_pairs", "fill_blanks", "toggle_true_false"}
DefaultTemplate == "drag_drop"

(* types.GenerateContentConfig; max_output_tokens 0 stands for not given,  *)
(* system_instruction is the prompt with the values embedded in it         *)
GenerateContentConfig(si, tokens) ==
    [system_instruction |-> si, response_mime_type |-> "application/json",
     temperature |-> "0.7", max_output_tokens |-> tokens]

NoConfig == [system_instruction |-> <<>>, response_mime_type |-> "",
             temperature |-> "", max_output_tokens |-> 0]

(* lines 27-60, 94-136, 159-251 *)
Config(op, template) ==
    CASE op = "generate_subtopics" ->
            GenerateContentConfig(<<"learning design assistant", Question>>, 500)
      [] op = "generate_explanation_and_activity" ->
            GenerateContentConfig(<<"educational tutor", Question, Subtopic>>, 1000)
      [] op = "generate_interactive_activity" ->
            GenerateContentConfig(<<"interaction designer", Topic, Explanation, template>>, 0)

(* the contents argument: lines 67, 142, 258 *)
Contents(op, template) ==
    CASE op = "generate_subtopics" -> Question
      [] op = "generate_explanation_and_activity" -> Subtopic
      [] op = "generate_interactive_activity" -> template

(* variant: the match_pairs and fill_blanks schemas are interchanged *)
ActivitySchemaText_swapped(template) ==
    CASE template = "drag_drop" -> DragDropText
      [] template = "match_pairs" -> FillText
      [] template = "fill_blanks" -> MatchText
      [] template = "toggle_true_false" -> ToggleText

(* the schema the prompt gives for each template: lines 164-237 *)
ActivitySchemaText(template) ==
    CASE template = "drag_drop" -> DragDropText
      [] template = "match_pairs" -> MatchText
      [] template = "fill_blanks" -> FillText
      [] template = "toggle_true_false" -> ToggleText

(* Frames: the local state of one invocation.                              *)
(*   pc: "idle"      no invocation at this call site                       *)
(*       "call"      at the top of the try block, about to call            *)
(*       "waiting"   blocked in client.models.generate_content             *)
(*       "backoff"   attempt < retries held, about to time.sleep           *)
(*       "exhausted" the for loop ran out, at the final print/return None  *)
(*       "returned"  the function returned result                          *)
(*       "raised"    an exception left the function                        *)
(*   events: the service calls and sleeps made so far, in order            *)
(*   failures: the kind of each failed attempt so far, in order            *)
(*   template: template_type of generate_interactive_activity              *)
(*   contents, config: the arguments of generate_content, built on entry   *)
(*   requests: the request sent by each service call so far, in order      *)
IdleFrame ==
    [op |-> "none", retries |-> 0, delay |-> 0, defaults |-> FALSE,
     template |-> DefaultTemplate, contents |-> "", config |-> NoConfig,
     requests |-> <<>>,
     attempt |-> 0, pc |-> "idle",
     events |-> <<>>, failures |-> <<>>, text |-> NoText, result |-> Unset,
     raised |-> NoError]

CallEvent == [e |-> "call", d |-> 0]
SleepEvent(d) == [e |-> "sleep", d |-> d]

RECURSIVE CountEvents(_, _)
CountEvents(evs, kind) ==
    IF evs = <<>> THEN 0
    ELSE (IF Head(evs).e = kind THEN 1 ELSE 0) + CountEvents(Tail(evs), kind)

RECURSIVE SleepDurations(_)
SleepDurations(evs) ==
    IF evs = <<>> THEN <<>>
    ELSE IF Head(evs).e = "sleep" THEN <<Head(evs).d>> \o SleepDurations(Tail(evs))
    ELSE SleepDurations(Tail(evs))

Calls(f) == CountEvents(f.events, "call")
Sleeps(f) == SleepDurations(f.events)

(* The failure taxonomy of an outcome that did not yield a parsed value *)
Kind(o) ==
    IF o.raises # NoError THEN "TransportError"
    ELSE IF ~Truthy(o.text) THEN "EmptyResponse"
    ELSE "MalformedResponse"

(* variant: the loop body runs at least once *)
Enter_at_least_once(op, n, d) ==
    [IdleFrame EXCEPT !.op = op, !.retries = n, !.delay = d,
                      !.contents = Contents(op, DefaultTemplate),
                      !.config = Config(op, DefaultTemplate),
                      !.attempt = 1, !.pc = "call"]

(* for attempt in range(1, retries + 1): entering the loop *)
Enter(op, n, d) ==
    [IdleFrame EXCEPT !.op = op, !.retries = n, !.delay = d,
                      !.contents = Contents(op, DefaultTemplate),
                      !.config = Config(op, DefaultTemplate),
                      !.attempt = IF n >= 1 THEN 1 ELSE 0,
                      !.pc = IF n >= 1 THEN "call" ELSE "exhausted"]

(* variant: range(1, retries + 2), one iteration too many *)
LoopNext_one_more(f) ==
    IF f.attempt + 1 <= f.retries + 1
    THEN [f EXCEPT !.attempt = f.attempt + 1, !.pc = "call"]
    ELSE [f EXCEPT !.pc = "exhausted"]

(* the for statement fetches the next value of range(1, retries + 1) *)
LoopNext(f) ==
    IF f.attempt + 1 <= f.retries
    THEN [f EXCEPT !.attempt = f.attempt + 1, !.pc = "call"]
    ELSE [f EXCEPT !.pc = "exhausted"]

(* generate_interactive_activity entered with an explicit template_type *)
EnterActivity(template, n, d) ==
    [Enter("generate_interactive_activity", n, d) EXCEPT
        !.template = template,
        !.contents = Contents("generate_interactive_activity", template),
        !.config = Config("generate_interactive_activity", template)]

(* return <value> inside the try block *)
Return(f, o, v) == [f EXCEPT !.pc = "returned", !.text = o.text, !.result = v]

(* an exception no except clause matched leaves the function *)
Propagate(f, o, e) == [f EXCEPT !.pc = "raised", !.text = o.text, !.raised = e]

(* the attempt failed and was absorbed; sleep tells whether attempt < retries *)
Absorb(f, o, sleep) ==
    LET g == [f EXCEPT !.text = o.text, !.failures = Append(f.failures, Kind(o))]
    IN IF sleep THEN [g EXCEPT !.pc = "backoff"] ELSE LoopNext(g)

(* outcome of a try block: a returned value, a raised exception, or neither *)
TryReturn(v) == [ret |-> TRUE, value |-> v, exc |-> NoError]
TryRaise(e) == [ret |-> FALSE, value |-> Unset, exc |-> e]
TryFallThrough == [ret |-> FALSE, value |-> Unset, exc |-> NoError]

(* 2 ** n *)
RECURSIVE Pow2(_)
Pow2(n) == IF n <= 0 THEN 1 ELSE 2 * Pow2(n - 1)

----------------------------------------------------------------------------
(* generate_subtopics *)

(* variant: an empty body ends the invocation with None at once *)
generate_subtopics_try_empty_returns(o) ==
    IF o.raises # NoError THEN TryRaise(o.raises)
    ELSE IF Truthy(o.text)
         THEN IF json_loads(o.text) = ParseError THEN TryRaise("JSONDecodeError")
              ELSE TryReturn(json_loads(o.text))
         ELSE TryReturn(PyNone)

(* variant: a body that does not parse is replaced by an empty object *)
generate_subtopics_try_parse_fallback(o) ==
    IF o.raises # NoError THEN TryRaise(o.raises)
    ELSE IF json_loads(o.text) = ParseError
         THEN TryReturn(JsonValue("object", Absent, Absent, Absent, <<>>, Absent))
         ELSE TryReturn(json_loads(o.text))

(* lines 63-75: the try block *)
generate_subtopics_try(o) ==
    IF o.raises # NoError THEN TryRaise(o.raises)
    ELSE IF Truthy(o.text)
         THEN IF json_loads(o.text) = ParseError THEN TryRaise("JSONDecodeError")
              ELSE TryReturn(json_loads(o.text))
         ELSE TryFallThrough

(* lines 77-81: except errors.APIError / except Exception *)
generate_subtopics_catches(e) == IsAPIError(e) \/ IsException(e)

(* variant: attempt <= retries, sleeping after the final attempt too *)
generate_subtopics_retry_inclusive(f) == f.attempt <= f.retries

(* line 84 *)
generate_subtopics_retry(f) == f.attempt < f.retries

(* line 85 *)
generate_subtopics_wait_time(f) == f.delay * Pow2(f.attempt - 1)

(* variant: an API error is not retried *)
generate_subtopics_attempt_api_fatal(f, o) ==
    LET t == generate_subtopics_try(o) IN
    IF t.ret THEN Return(f, o, t.value)
    ELSE IF t.exc # NoError /\ ~generate_subtopics_catches(t.exc)
         THEN Propagate(f, o, t.exc)
         ELSE IF IsAPIError(t.exc)
              THEN [f EXCEPT !.pc = "exhausted", !.text = o.text,
                             !.failures = Append(f.failures, Kind(o))]
              ELSE Absorb(f, o, generate_subtopics_retry(f))

(* lines 63-84: one loop body up to the backoff decision *)
generate_subtopics_attempt(f, o) ==
    LET t == generate_subtopics_try(o) IN
    IF t.ret THEN Return(f, o, t.value)
    ELSE IF t.exc # NoError /\ ~generate_subtopics_catches(t.exc)
         THEN Propagate(f, o, t.exc)
         ELSE Absorb(f, o, generate_subtopics_retry(f))

----------------------------------------------------------------------------
(* generate_explanation_and_activity *)

(* lines 139-145: the try block; json.loads(None) raises TypeError *)
generate_explanation_and_activity_try(o) ==
    IF o.raises # NoError THEN TryRaise(o.raises)
    ELSE IF o.text = NoText THEN TryRaise("TypeError")
    ELSE IF json_loads(o.text) = ParseError THEN TryRaise("JSONDecodeError")
    ELSE TryReturn(json_loads(o.text))

(* line 147: except Exception *)
generate_explanation_and_activity_catches(e) == IsException(e)

(* line 150 *)
generate_explanation_and_activity_retry(f) == f.attempt < f.retries

(* variant: linear instead of exponential backoff *)
generate_explanation_and_activity_wait_time_linear(f) == f.delay * f.attempt

(* line 151 *)
generate_explanation_and_activity_wait_time(f) == f.delay * Pow2(f.attempt - 1)

(* variant: a parsed value is kept but the loop goes on *)
generate_explanation_and_activity_attempt_keeps_going(f, o) ==
    LET t == generate_explanation_and_activity_try(o) IN
    IF t.ret
    THEN IF generate_explanation_and_activity_retry(f)
         THEN [f EXCEPT !.pc = "backoff", !.text = o.text, !.result = t.value]
         ELSE Return(f, o, t.value)
    ELSE IF t.exc # NoError /\ ~generate_explanation_and_activity_catches(t.exc)
         THEN Propagate(f, o, t.exc)
         ELSE Absorb(f, o, generate_explanation_and_activity_retry(f))

generate_explanation_and_activity_attempt(f, o) ==
    LET t == generate_explanation_and_activity_try(o) IN
    IF t.ret THEN Return(f, o, t.value)
    ELSE IF t.exc # NoError /\ ~generate_explanation_and_activity_catches(t.exc)
         THEN Propagate(f, o, t.exc)
         ELSE Absorb(f, o, generate_explanation_and_activity_retry(f))

----------------------------------------------------------------------------
(* generate_interactive_activity *)

(* variant: the requested type is written into the parsed object *)
generate_interactive_activity_try_stamps_type(o) ==
    IF o.raises # NoError THEN TryRaise(o.raises)
    ELSE IF o.text = NoText THEN TryRaise("TypeError")
    ELSE IF json_loads(o.text) = ParseError THEN TryRaise("JSONDecodeError")
    ELSE TryReturn([json_loads(o.text) EXCEPT !.type = DefaultTemplate])

(* lines 254-261: the try block *)
generate_interactive_activity_try(o) ==
    IF o.raises # NoError THEN TryRaise(o.raises)
    ELSE IF o.text = NoText THEN TryRaise("TypeError")
    ELSE IF json_loads(o.text) = ParseError THEN TryRaise("JSONDecodeError")
    ELSE TryReturn(json_loads(o.text))

(* variant: only API errors are caught *)
generate_interactive_activity_catches_api_only(e) == IsAPIError(e)

(* line 262: except Exception *)
generate_interactive_activity_catches(e) == IsException(e)

(* variant: attempt < retries - 1, no sleep before the last attempt *)
generate_interactive_activity_retry_short(f) == f.attempt < f.retries - 1

(* line 265 *)
generate_interactive_activity_retry(f) == f.attempt < f.retries

(* line 266 *)
generate_interactive_activity_wait_time(f) == f.delay * Pow2(f.attempt - 1)

generate_interactive_activity_attempt(f, o) ==
    LET t == generate_interactive_activity_try(o) IN
    IF t.ret THEN Return(f, o, t.value)
    ELSE IF t.exc # NoError /\ ~generate_interactive_activity_catches(t.exc)
         THEN Propagate(f, o, t.exc)
         ELSE Absorb(f, o, generate_interactive_activity_retry(f))

----------------------------------------------------------------------------
(* Frame steps, dispatched on the operation *)

(* the call of client.models.generate_content is issued *)
Request(f) == [model |-> MODEL_ID, contents |-> f.contents, config |-> f.config]

(* variant: each retry asks for a larger response *)
SendStep_growing_limit(f) ==
    [f EXCEPT !.pc = "waiting", !.events = Append(f.events, CallEvent),
              !.requests = Append(f.requests,
                  [Request(f) EXCEPT !.config.max_output_tokens = @ * f.attempt])]

SendStep(f) ==
    [f EXCEPT !.pc = "waiting", !.events = Append(f.events, CallEvent),
              !.requests = Append(f.requests, Request(f))]

(* the call comes back with outcome o and the rest of the loop body runs *)
AttemptStep(f, o) ==
    CASE f.op = "generate_subtopics" -> generate_subtopics_attempt(f, o)
      [] f.op = "generate_explanation_and_activity" ->
            generate_explanation_and_activity_attempt(f, o)
      [] f.op = "generate_interactive_activity" ->
            generate_interactive_activity_attempt(f, o)

WaitTime(f) ==
    CASE f.op = "generate_subtopics" -> generate_subtopics_wait_time(f)
      [] f.op = "generate_explanation_and_activity" ->
            generate_explanation_and_activity_wait_time(f)
      [] f.op = "generate_interactive_activity" ->
            generate_interactive_activity_wait_time(f)

(* time.sleep(wait_time), then the for loop advances attempt *)
SleepStep(f) ==
    LoopNext([f EXCEPT !.events = Append(f.events, SleepEvent(WaitTime(f)))])

(* variant: the value returned on exhaustion depends on the last failure *)
GiveUpStep_by_cause(f) ==
    [f EXCEPT !.pc = "returned",
              !.result = IF f.failures # <<>> /\ f.failures[Len(f.failures)] = "EmptyResponse"
                         THEN JsonValue("object", Absent, Absent, Absent, <<>>, Absent)
                         ELSE PyNone]

(* the loop is over: print "Max retries reached", return None *)
GiveUpStep(f) == [f EXCEPT !.pc = "returned", !.result = PyNone]

----------------------------------------------------------------------------
(* State machine *)

Init ==
    /\ apiKey \in KeyValues
    /\ module = "unloaded"
    /\ startupErrors = 0
    /\ client = FALSE
    /\ inv = [s \in AllSites |-> IdleFrame]

(* variant: the client is constructed before the key is checked *)
Import_client_first ==
    /\ module = "unloaded"
    /\ client' = TRUE
    /\ IF apiKey = NoKey \/ apiKey = ""
       THEN /\ module' = "failed"
            /\ startupErrors' = startupErrors + 1
       ELSE /\ module' = "loaded"
            /\ startupErrors' = startupErrors
    /\ UNCHANGED <<apiKey, inv>>

(* lines 9-20: importing the module *)
Import ==
    /\ module = "unloaded"
    /\ IF apiKey = NoKey \/ apiKey = ""
       THEN /\ module' = "failed"
            /\ startupErrors' = startupErrors + 1
            /\ client' = client
       ELSE /\ module' = "loaded"
            /\ startupErrors' = startupErrors
            /\ client' = TRUE
    /\ UNCHANGED <<apiKey, inv>>

(* a caller invokes one of the three functions; they exist only once the   *)
(* module has been imported                                                *)
Invoke(s, op, n, d) ==
    /\ module = "loaded"
    /\ inv[s].pc = "idle"
    /\ inv' = [inv EXCEPT ![s] = Enter(op, n, d)]
    /\ UNCHANGED <<apiKey, module, startupErrors, client>>

(* the same, leaving retries and delay to their defaults *)
InvokeDefault(s, op) ==
    /\ module = "loaded"
    /\ inv[s].pc = "idle"
    /\ inv' = [inv EXCEPT ![s] =
                 [Enter(op, DefaultRetries, DefaultDelay) EXCEPT !.defaults = TRUE]]
    /\ UNCHANGED <<apiKey, module, startupErrors, client>>

(* generate_interactive_activity called with template_type given *)
InvokeWithTemplate(s, template, n, d) ==
    /\ module = "loaded"
    /\ inv[s].pc = "idle"
    /\ inv' = [inv EXCEPT ![s] = EnterActivity(template, n, d)]
    /\ UNCHANGED <<apiKey, module, startupErrors, client>>

Send(s) ==
    /\ inv[s].pc = "call"
    /\ client
    /\ inv' = [inv EXCEPT ![s] = SendStep(inv[s])]
    /\ UNCHANGED <<apiKey, module, startupErrors, client>>

Receive(s, o) ==
    /\ inv[s].pc = "waiting"
    /\ inv' = [inv EXCEPT ![s] = AttemptStep(inv[s], o)]
    /\ UNCHANGED <<apiKey, module, startupErrors, client>>

(* variant: the attempt counter is one module-level variable *)
Sleep_shared_attempt(s) ==
    /\ inv[s].pc = "backoff"
    /\ inv' = [t \in AllSites |->
                 IF t = s THEN SleepStep(inv[s])
                 ELSE IF inv[t].pc \in {"call", "waiting", "backoff"}
                      THEN [inv[t] EXCEPT !.attempt = inv[t].attempt + 1]
                      ELSE inv[t]]
    /\ UNCHANGED <<apiKey, module, startupErrors, client>>

Sleep(s) ==
    /\ inv[s].pc = "backoff"
    /\ inv' = [inv EXCEPT ![s] = SleepStep(inv[s])]
    /\ UNCHANGED <<apiKey, module, startupErrors, client>>

GiveUp(s) ==
    /\ inv[s].pc = "exhausted"
    /\ inv' = [inv EXCEPT ![s] = GiveUpStep(inv[s])]
    /\ UNCHANGED <<apiKey, module, startupErrors, client>>

(* the caller has taken the result; the call site can invoke again *)
Discard(s) ==
    /\ inv[s].pc \in {"returned", "raised"}
    /\ inv' = [inv EXCEPT ![s] = IdleFrame]
    /\ UNCHANGED <<apiKey, module, startupErrors, client>>

Next ==
    \/ Import
    \/ \E s \in Sites, op \in Ops, n \in RetriesArgs, d \in DelayArgs : Invoke(s, op, n, d)
    \/ \E s \in Sites, op \in Ops : InvokeDefault(s, op)
    \/ \E s \in Sites, t \in TemplateKinds, n \in RetriesArgs, d \in DelayArgs :
          InvokeWithTemplate(s, t, n, d)
    \/ \E s \in Sites : Send(s)
    \/ \E s \in Sites, o \in Outcomes : Receive(s, o)
    \/ \E s \in Sites : Sleep(s)
    \/ \E s \in Sites : GiveUp(s)
    \/ \E s \in Sites : Discard(s)

Spec == Init /\ [][Next]_vars

(* The code is sequential: an invocation that can take its next step takes *)
(* it; a sleep ends; and every service call returns or raises.             *)
Fairness ==
    \A s \in Sites :
        /\ WF_vars(Send(s))
        /\ WF_vars(\E o \in Outcomes : Receive(s, o))
        /\ WF_vars(Sleep(s))
        /\ WF_vars(GiveUp(s))

SpecLive == Init /\ [][Next]_vars /\ Fairness

----------------------------------------------------------------------------
(* The three stages side by side: one invocation of each, started with the *)
(* same retries and delay, the k-th call of each receiving the same        *)
(* outcome.  Every frame takes its own step of its own function.           *)

StageOf(s) ==
    CASE s = "plan" -> "generate_subtopics"
      [] s = "compose" -> "generate_explanation_and_activity"
      [] s = "generate" -> "generate_interactive_activity"

SomeLockSiteAt(pc) == \E s \in LockSites : inv[s].pc = pc

LockInvoke(n, d) ==
    /\ module = "loaded"
    /\ \A s \in LockSites : inv[s].pc = "idle"
    /\ inv' = [s \in AllSites |->
                 IF s \in LockSites THEN Enter(StageOf(s), n, d) ELSE inv[s]]
    /\ UNCHANGED <<apiKey, module, startupErrors, client>>

LockSend ==
    /\ SomeLockSiteAt("call")
    /\ client
    /\ inv' = [s \in AllSites |->
                 IF s \in LockSites /\ inv[s].pc = "call"
                 THEN SendStep(inv[s]) ELSE inv[s]]
    /\ UNCHANGED <<apiKey, module, startupErrors, client>>

LockReceive(o) ==
    /\ SomeLockSiteAt("waiting")
    /\ inv' = [s \in AllSites |->
                 IF s \in LockSites /\ inv[s].pc = "waiting"
                 THEN AttemptStep(inv[s], o) ELSE inv[s]]
    /\ UNCHANGED <<apiKey, module, startupErrors, client>>

LockSleep ==
    /\ SomeLockSiteAt("backoff")
    /\ inv' = [s \in AllSites |->
                 IF s \in LockSites /\ inv[s].pc = "backoff"
                 THEN SleepStep(inv[s]) ELSE inv[s]]
    /\ UNCHANGED <<apiKey, module, startupErrors, client>>

LockGiveUp ==
    /\ SomeLockSiteAt("exhausted")
    /\ inv' = [s \in AllSites |->
                 IF s \in LockSites /\ inv[s].pc = "exhausted"
                 THEN GiveUpStep(inv[s]) ELSE inv[s]]
    /\ UNCHANGED <<apiKey, module, startupErrors, client>>

LockDiscard ==
    /\ \A s \in LockSites : inv[s].pc \in {"returned", "raised"}
    /\ inv' = [s \in AllSites |-> IF s \in LockSites THEN IdleFrame ELSE inv[s]]
    /\ UNCHANGED <<apiKey, module, startupErrors, client>>

NextLock ==
    \/ Import
    \/ \E n \in RetriesArgs, d \in DelayArgs : LockInvoke(n, d)
    \/ LockSend
    \/ \E o \in Outcomes : LockReceive(o)
    \/ LockSleep
    \/ LockGiveUp
    \/ LockDiscard

SpecLock == Init /\ [][NextLock]_vars

----------------------------------------------------------------------------
(* Independent call sites: two callers, e.g. two threads of a host         *)
(* application, each running its own invocation; their steps interleave.   *)
ConcRetriesArgs == 1..ConcMaxRetries
ConcDelayArgs == {1, DefaultDelay}
ConcOutcomes == {Raise("APIError"), Reply(EmptyText), Reply(PlanText), Reply(MatchText)}

NextConc ==
    \/ Import
    \/ \E s \in ConcSites, op \in Ops, n \in ConcRetriesArgs, d \in ConcDelayArgs :
          Invoke(s, op, n, d)
    \/ \E s \in ConcSites : Send(s)
    \/ \E s \in ConcSites, o \in ConcOutcomes : Receive(s, o)
    \/ \E s \in ConcSites : Sleep(s)
    \/ \E s \in ConcSites : GiveUp(s)
    \/ \E s \in ConcSites : Discard(s)

SpecConc == Init /\ [][NextConc]_vars

----------------------------------------------------------------------------
(* Properties *)

Frames == {inv[s] : s \in Sites}
Finished(f) == f.pc = "returned"
AllAttemptsFailed(f) == Len(f.failures) = Calls(f)
FailureKinds(f) == {f.failures[i] : i \in 1..Len(f.failures)}

(* C1: whenever generate_subtopics, called with retries >= 1, returns None *)
(* it has made exactly retries service calls.                              *)
C1_SentinelOnlyAfterAllAttempts ==
    \A f \in Frames :
        (f.op = "generate_subtopics" /\ f.retries >= 1 /\ Finished(f)
            /\ f.result = PyNone)
        => Calls(f) = f.retries

(* C2: in each of the three operations the k-th sleep, the one that        *)
(* follows failed attempt k, lasts delay * 2^(k-1); with retries = 3,      *)
(* delay = 3 and every attempt failing the sleeps are exactly 3, 6.        *)
C2_BackoffDurations ==
    \A f \in Frames :
        /\ \A k \in 1..Len(Sleeps(f)) :
              /\ Sleeps(f)[k] = f.delay * (2 ^ (k - 1))
              /\ k < f.retries
              /\ Len(f.failures) >= k
        /\ (f.retries = 3 /\ f.delay = 3 /\ Finished(f) /\ AllAttemptsFailed(f))
              => Sleeps(f) = <<3, 6>>

C2_Witness ==
    \E f \in Frames :
        /\ f.op = "generate_explanation_and_activity" /\ f.retries = 3 /\ f.delay = 3
        /\ Finished(f) /\ AllAttemptsFailed(f) /\ Sleeps(f) = <<3, 6>>

(* C3: when every attempt fails, an operation called with retries = n >= 1 *)
(* ends after exactly n service calls and n-1 sleeps, the last event being *)
(* a call; generate_subtopics with retries = 2 and only empty bodies       *)
(* returns None after 2 calls and 1 sleep.                                 *)
C3_CallsAndSleepsOnExhaustion ==
    \A f \in Frames :
        (f.retries >= 1 /\ Finished(f) /\ AllAttemptsFailed(f))
        => /\ Calls(f) = f.retries
           /\ Len(Sleeps(f)) = f.retries - 1
           /\ f.events[Len(f.events)].e = "call"
           /\ f.result = PyNone

C3_Witness ==
    \E f \in Frames :
        /\ f.op = "generate_subtopics" /\ f.retries = 2 /\ Finished(f)
        /\ f.failures = <<"EmptyResponse", "EmptyResponse">>
        /\ Calls(f) = 2 /\ Len(Sleeps(f)) = 1 /\ f.result = PyNone

(* C4: no invocation of the three operations ends with an exception: it    *)
(* ends by returning a parsed value or None, whatever failed in between.   *)
C4_NoExceptionEscapes ==
    \A f \in Frames :
        /\ f.pc # "raised"
        /\ f.raised = NoError
        /\ Finished(f) => f.result \notin {Unset, ParseError}

C4_Witness ==
    \E f \in Frames :
        /\ f.op = "generate_interactive_activity" /\ Finished(f) /\ f.result = PyNone
        /\ FailureKinds(f) = {"TransportError", "EmptyResponse", "MalformedResponse"}

(* C5: an attempt that does not return a value is followed by the backoff  *)
(* and by attempt k+1 whenever k < retries, whatever the failure was; the  *)
(* loop is left without a value only when attempt = retries.               *)
C5_RetryStep(f, g) ==
    /\ (f.pc = "waiting" /\ g.pc # "returned" /\ f.attempt < f.retries)
          => (g.pc = "backoff" /\ g.attempt = f.attempt)
    /\ (f.pc = "waiting" /\ g.pc \in {"exhausted", "raised"})
          => f.attempt = f.retries
    /\ f.pc = "backoff" => (g.pc = "call" /\ g.attempt = f.attempt + 1)

C5_RetryIgnoresFailureKind ==
    [][\A s \in Sites : C5_RetryStep(inv[s], inv'[s])]_vars

C5_Witness ==
    \E f \in Frames :
        /\ f.pc = "call" /\ f.attempt = 4
        /\ f.failures = <<"TransportError", "EmptyResponse", "MalformedResponse">>

(* C6: a run in which every attempt failed returns None, whichever kinds   *)
(* of failure occurred and in whichever order: the value carries nothing   *)
(* about the cause.                                                        *)
C6_UniformFailureSignal ==
    \A f \in Frames :
        (Finished(f) /\ AllAttemptsFailed(f)) => (f.result = PyNone /\ f.raised = NoError)

C6_Witness ==
    \E f \in Frames :
        /\ Finished(f) /\ f.op = "generate_explanation_and_activity"
        /\ f.failures = <<"MalformedResponse", "TransportError", "EmptyResponse">>
        /\ f.result = PyNone

(* C7: started with the same retries and delay and given the same outcome  *)
(* for their k-th call, the three operations are at the same point, have   *)
(* made the same calls and sleeps, and end with the same kind of result.   *)
C7_SameRetryPolicy ==
    \A s, t \in LockSites :
        /\ inv[s].pc = inv[t].pc
        /\ inv[s].attempt = inv[t].attempt
        /\ inv[s].events = inv[t].events
        /\ (inv[s].result = PyNone) <=> (inv[t].result = PyNone)
        /\ (inv[s].result = Unset) <=> (inv[t].result = Unset)
        /\ inv[s].raised = inv[t].raised

C7_Witness ==
    \A s \in LockSites :
          /\ inv[s].pc = "returned" /\ inv[s].op = StageOf(s)
          /\ inv[s].failures = <<"EmptyResponse", "MalformedResponse", "TransportError">>
          /\ inv[s].result \notin {PyNone, Unset}
          /\ Len(Sleeps(inv[s])) = 3

(* C8 as stated: every value generate_subtopics returns that is not None   *)
(* is a SubtopicPlan.                                                      *)
DepthLevels == {"Introductory", "Intermediate", "Advanced"}
QuestionTypes == {"Factual", "Conceptual", "Procedural", "Opinion", "Open-Ended"}
IsSubtopicPlan(v) ==
    /\ v.jt = "object"
    /\ v.subject_area # Absent
    /\ Len(v.curiosity_tree) \in 3..5
    /\ v.depth_level \in DepthLevels
    /\ v.question_type \in QuestionTypes

C8_AlwaysSubtopicPlan ==
    \A f \in Frames :
        (f.op = "generate_subtopics" /\ Finished(f) /\ f.result # PyNone)
        => IsSubtopicPlan(f.result)

(* the bodies in which the service followed the instruction of lines 30-48 *)
InstructedPlanTexts == {PlanText}

(* C8, amended: every value generate_subtopics returns that is not None is *)
(* the JSON parse of the non-empty body of its last call, and is a         *)
(* SubtopicPlan when that body follows the instruction.                    *)
C8_ReturnsParseOfBody ==
    \A f \in Frames :
        (f.op = "generate_subtopics" /\ Finished(f) /\ f.result # PyNone)
        => /\ Truthy(f.text)
           /\ f.result = json_loads(f.text)
           /\ f.result # ParseError
           /\ f.text \in InstructedPlanTexts => IsSubtopicPlan(f.result)

C8_Witness ==
    \E f \in Frames :
          /\ f.op = "generate_subtopics" /\ Finished(f)
          /\ f.text = PlanText /\ IsSubtopicPlan(f.result)
          /\ Len(f.failures) = 2

(* C9: called with the default retries, each operation makes exactly one   *)
(* service call and never sleeps; if that call fails it returns None.      *)
C9_DefaultBudgetIsOneCall ==
    \A f \in Frames :
        f.defaults =>
            /\ Calls(f) <= 1
            /\ Sleeps(f) = <<>>
            /\ f.pc # "backoff"
            /\ f.pc \in {"exhausted", "returned"} => Calls(f) = 1
            /\ (Finished(f) /\ f.failures # <<>>) => f.result = PyNone

C9_Witness ==
    \E f \in Frames :
        /\ f.defaults /\ Finished(f) /\ f.failures = <<"TransportError">>
        /\ Calls(f) = 1 /\ f.result = PyNone

(* C10: with the API key absent the startup error is raised once, the      *)
(* client is never constructed and no operation makes a service call.      *)
KeyAbsent == apiKey = NoKey \/ apiKey = ""

C10_MissingKeyIsFatal ==
    /\ KeyAbsent =>
          /\ ~client
          /\ startupErrors <= 1
          /\ module \in {"unloaded", "failed"}
          /\ \A f \in Frames : f.pc = "idle" /\ Calls(f) = 0
    /\ module = "failed" <=> startupErrors = 1
    /\ module = "failed" => KeyAbsent
    /\ client => ~KeyAbsent

C10_Witness == KeyAbsent /\ module = "failed" /\ startupErrors = 1 /\ ~client

(* C14: an invocation stops at its first successful attempt: it returns   *)
(* the parse of that attempt's non-empty body after k calls and k-1        *)
(* sleeps, k-1 being the number of failed attempts, and makes no call and  *)
(* no sleep afterwards.                                                    *)
Succeeded(f) == Finished(f) /\ ~AllAttemptsFailed(f)

C14_AtFirstSuccess(f) ==
    Succeeded(f) =>
        /\ Calls(f) = Len(f.failures) + 1
        /\ Len(Sleeps(f)) = Len(f.failures)
        /\ f.events[Len(f.events)].e = "call"
        /\ Truthy(f.text)
        /\ f.result = json_loads(f.text)
        /\ f.result # ParseError

C14_StopsAtFirstSuccess ==
    /\ [](\A f \in Frames : C14_AtFirstSuccess(f))
    /\ [][\A s \in Sites :
            (Finished(inv[s]) /\ inv'[s].pc # "idle") => inv'[s] = inv[s]]_vars

C14_Witness ==
    \E f \in Frames :
        /\ f.op = "generate_explanation_and_activity" /\ f.retries = 4
        /\ Succeeded(f) /\ Calls(f) = 3 /\ Len(Sleeps(f)) = 2
        /\ f.text = EmptyObjectText /\ f.result = json_loads(EmptyObjectText)

(* C15 as stated: within an invocation calls and sleeps alternate starting *)
(* with a call, at most one call is outstanding, a sleep comes only right  *)
(* after a failed attempt and is followed by another attempt, and the      *)
(* number of sleeps is the number of completed attempts minus one, or      *)
(* equal to it only while a sleep is pending its following attempt.        *)
Running(f) == f.pc # "idle"
Completed(f) == IF f.pc = "waiting" THEN Calls(f) - 1 ELSE Calls(f)
LastEvent(f) == IF f.events = <<>> THEN "none" ELSE f.events[Len(f.events)].e
SleepPending(f) ==
    \/ LastEvent(f) = "sleep"
    \/ f.pc = "waiting" /\ Len(f.events) >= 2 /\ f.events[Len(f.events) - 1].e = "sleep"

C15_Alternation(f) ==
    /\ \A i \in 1..Len(f.events) :
          f.events[i].e = (IF i % 2 = 1 THEN "call" ELSE "sleep")
    /\ Calls(f) <= Len(f.failures) + 1
    /\ f.pc = "waiting" => Calls(f) = Len(f.failures) + 1
    /\ f.pc = "backoff" => (LastEvent(f) = "call" /\ AllAttemptsFailed(f))
    /\ LastEvent(f) = "sleep" => (f.pc = "call" /\ f.attempt <= f.retries)

C15_SleepCountAsStated ==
    \A f \in Frames :
        Running(f) =>
            /\ C15_Alternation(f)
            /\ \/ Len(Sleeps(f)) = Completed(f) - 1
               \/ Len(Sleeps(f)) = Completed(f) /\ SleepPending(f)

(* C15, amended: as above, except that before the first attempt has        *)
(* completed the number of sleeps and of completed attempts are both 0;    *)
(* and the step after a sleep is the next call.                            *)
C15_SleepCount(f) ==
    \/ Completed(f) = 0 /\ Sleeps(f) = <<>>
    \/ Completed(f) >= 1 /\ Len(Sleeps(f)) = Completed(f) - 1 /\ ~SleepPending(f)
    \/ Completed(f) >= 1 /\ Len(Sleeps(f)) = Completed(f) /\ SleepPending(f)

C15_CallsAndSleepsAlternate ==
    /\ [](\A f \in Frames : Running(f) => (C15_Alternation(f) /\ C15_SleepCount(f)))
    /\ [][\A s \in Sites :
            (LastEvent(inv[s]) = "sleep" /\ inv'[s] # inv[s])
            => (inv'[s].pc = "waiting" /\ Calls(inv'[s]) = Calls(inv[s]) + 1)]_vars

C15_Witness ==
    \E f \in Frames :
        /\ f.op = "generate_interactive_activity" /\ f.retries = 3
        /\ f.pc = "waiting" /\ Calls(f) = 3 /\ Len(Sleeps(f)) = 2 /\ SleepPending(f)

(* C17: called with retries <= 0 an operation makes no service call and no *)
(* sleep and returns None at once.                                         *)
C17_NoAttemptWithoutBudget ==
    \A f \in Frames :
        (Running(f) /\ f.retries <= 0) =>
            /\ f.events = <<>>
            /\ f.failures = <<>>
            /\ f.pc \in {"exhausted", "returned"}
            /\ Finished(f) => f.result = PyNone

C17_Witness ==
    \E f \in Frames :
        /\ f.op = "generate_subtopics" /\ f.retries = -1
        /\ Finished(f) /\ f.result = PyNone /\ f.events = <<>>

(* C12 as stated: when the body follows the schema the prompt gives for    *)
(* the requested template, generate_interactive_activity returns an        *)
(* Activity whose type is the requested template kind.                     *)
FollowedSchema(f) ==
    /\ f.op = "generate_interactive_activity"
    /\ Succeeded(f)
    /\ f.text = ActivitySchemaText(f.template)

C12_TypeIsTemplateKind ==
    \A f \in Frames : FollowedSchema(f) => f.result.type = f.template

(* C12, amended: the returned Activity carries the type of the schema of   *)
(* the requested template: drag_drop and toggle_true_false under their own *)
(* names, match_pairs as "match" and fill_blanks as "fill_in_blanks".      *)
C12_TypeIsSchemaType ==
    \A f \in Frames :
        FollowedSchema(f) =>
            /\ f.template = "drag_drop" => f.result.type = "drag_drop"
            /\ f.template = "toggle_true_false" => f.result.type = "toggle_true_false"
            /\ f.template = "match_pairs" => f.result.type = "match"
            /\ f.template = "fill_blanks" => f.result.type = "fill_in_blanks"
            /\ f.contents = f.template

C12_Witness ==
    \E f \in Frames :
        /\ FollowedSchema(f) /\ f.template = "fill_blanks"
        /\ f.result.type = "fill_in_blanks" /\ Len(f.failures) = 1

(* C18: every attempt of an invocation sends the same request: model,      *)
(* contents and config are those built from the arguments before the first *)
(* attempt, and no failed attempt or sleep changes them.                   *)
C18_RequestOfArguments(f) ==
    [model |-> MODEL_ID, contents |-> Contents(f.op, f.template),
     config |-> Config(f.op, f.template)]

C18_SameRequestEveryAttempt ==
    /\ [](\A f \in Frames :
            Running(f) =>
                /\ Len(f.requests) = Calls(f)
                /\ \A k \in 1..Len(f.requests) :
                      f.requests[k] = C18_RequestOfArguments(f))
    /\ [][\A s \in Sites :
            (Running(inv[s]) /\ Running(inv'[s])) =>
                /\ inv'[s].config = inv[s].config
                /\ inv'[s].contents = inv[s].contents
                /\ inv'[s].template = inv[s].template]_vars

C18_Witness ==
    \E f \in Frames :
        /\ f.op = "generate_subtopics" /\ Len(f.requests) = 3
        /\ f.requests[3] = f.requests[1] /\ f.requests[2] = f.requests[1]
        /\ f.requests[1].config.max_output_tokens = 500
        /\ Len(f.failures) = 2

(* C11: invocations share no mutable state.  Under any interleaving of two *)
(* call sites a step changes the frame of one invocation only, every       *)
(* invocation starts with attempt 1 and an empty history, and its progress *)
(* is the one its own arguments and its own failures determine.            *)
C11_OwnProgress(f) ==
    /\ f.pc \in {"call", "waiting"} => f.attempt = Len(f.failures) + 1
    /\ f.pc = "backoff" => f.attempt = Len(f.failures)
    /\ Calls(f) <= f.retries
    /\ Calls(f) \in {Len(f.failures), Len(f.failures) + 1}
    /\ \A k \in 1..Len(Sleeps(f)) : Sleeps(f)[k] = f.delay * (2 ^ (k - 1))
    /\ Len(Sleeps(f)) = (IF f.pc \in {"backoff", "exhausted"} \/ Finished(f)
                         THEN Calls(f) - 1 ELSE f.attempt - 1)
    /\ (Finished(f) /\ AllAttemptsFailed(f)) => (Calls(f) = f.retries /\ f.result = PyNone)
    /\ Succeeded(f) => f.result = json_loads(f.text)

C11_Step(s, t) ==
    /\ inv'[s] # inv[s] => inv'[t] = inv[t]
    /\ (inv[s].pc = "idle" /\ inv'[s].pc # "idle") =>
          /\ inv'[s].attempt = 1
          /\ inv'[s].events = <<>>
          /\ inv'[s].failures = <<>>

C11_InvocationsIndependent ==
    /\ [](\A s \in ConcSites : Running(inv[s]) => C11_OwnProgress(inv[s]))
    /\ [][\A s, t \in ConcSites : s # t => C11_Step(s, t)]_vars

C11_Witness ==
    /\ inv["site1"].op = "generate_subtopics" /\ inv["site1"].retries = 2
    /\ inv["site1"].delay = 3 /\ inv["site1"].pc = "waiting"
    /\ inv["site1"].attempt = 2 /\ Sleeps(inv["site1"]) = <<3>>
    /\ inv["site2"].op = "generate_interactive_activity" /\ inv["site2"].retries = 2
    /\ inv["site2"].delay = 1 /\ inv["site2"].pc = "backoff"
    /\ inv["site2"].attempt = 1

C16_WithinBudget(f) ==
    /\ Calls(f) <= (IF f.retries >= 0 THEN f.retries ELSE 0)
    /\ Len(Sleeps(f)) <= (IF f.retries >= 1 THEN f.retries - 1 ELSE 0)

C16_Terminates ==
    /\ [](\A f \in Frames : C16_WithinBudget(f))
    /\ \A s \in Sites :
          (Running(inv[s]) /\ ~Finished(inv[s])) ~> Finished(inv[s])

C16_Witness ==
    \E f \in Frames :
        /\ f.op = "generate_interactive_activity" /\ f.retries = 4 /\ Finished(f)
        /\ Calls(f) = 4 /\ Len(Sleeps(f)) = 3 /\ f.result = PyNone

====
